---- MODULE Spec2Model ----
(***************************************************************************)
(* Model of cache.py: the polling workers (worker_thread, process_case,    *)
(* batch_insert_to_db), their supervisor (main) and the storage table.     *)
(*                                                                         *)
(* A worker is a thread; its position in worker_thread is pc[w].  Every    *)
(* blocking call (a network fetch, one statement of executemany on an      *)
(* autocommit connection, a sleep) ends one step, so steps of different    *)
(* workers interleave exactly where the threads can.                       *)
(***************************************************************************)
EXTENDS Integers, Sequences, FiniteSets, TLC

(* ------------------------------ bounds --------------------------------- *)
\* largest max_threads, max_retries and batch_size the configuration may hold
MaxThreads == 2
MaxRetries == 2
MaxBatchSize == 2
\* number of successful fetches after which the price source only fails
MaxClock == 3
\* longest batch handed to batch_insert_to_db in the flush experiments
MaxAlgLen == 2
\* largest batch_size of the single-worker configurations
MaxBatchSizeSingle == 3

(* ------------------------------ values --------------------------------- *)
\* Python's None, as a value comparable with the record tuples
None == [none |-> TRUE]
NA == "N/A"

ItemA == [name |-> "Case A", image |-> "a.png"]
\* an item without an "image" key
ItemB == [name |-> "Case B"]

\* what json.load(CASE_FILE) can meet: no file, no JSON, or a list of items
CatalogFiles ==
    {[kind |-> "missing"], [kind |-> "malformed"]}
    \cup {[kind |-> "list", items |-> l] : l \in {<<>>, <<ItemA>>, <<ItemA, ItemB>>}}

Names == {ItemA.name, ItemB.name}

Keys == {"lowest_price", "volume", "median_price"}

ValueOf(k) ==
    CASE k = "lowest_price" -> "$1.23"
      [] k = "volume" -> "500"
      [] k = "median_price" -> "$1.20"

\* the JSON objects of the price source: any subset of the three keys
AllResponses == {[k \in ks |-> ValueOf(k)] : ks \in SUBSET Keys}

\* the responses the workers of Spec meet
Responses == {[k \in ks |-> ValueOf(k)] : ks \in {Keys, {"volume"}}}

Workers == 1..MaxThreads

(* ------------------------------ state ---------------------------------- *)
VARIABLES
    BATCH_SIZE, MAX_RETRIES, MAX_THREADS,  \* config.json, read once
    case_file,       \* what CASE_FILE holds
    price_source,    \* the JSON objects the price source answers with
    main_pc,         \* position of main
    case_list,       \* the catalog main loaded
    started,         \* number of threads main has started
    pc,              \* pc[w]: position of worker w in worker_thread
    idx,             \* idx[w]: position of the for loop in case_list
    retries,         \* retries[w]: process_case's local counter
    processed_case,  \* processed_case[w]: what process_case returned
    cases_batch,     \* cases_batch[w]: the worker's batch
    flushPos,        \* flushPos[w]: next record executemany sends
    table,           \* the rows of TABLE_NAME
    now,             \* datetime.datetime.now()
    \* history variables, written by the actions and read only by properties
    attempts,        \* attempts[w]: session.get calls of the current process_case call
    produced,        \* every tuple a process_case call returned
    fetched,         \* the case, response and time of every successful session.get
    lastUpsert,      \* lastUpsert[n]: the record of the last committed upsert of name n
    sweepFailed,     \* sweepFailed[w]: names process_case gave up on in the current sweep
    sweepWritten,    \* sweepWritten[w]: names w upserted in the current sweep
    endBatch,        \* endBatch[w]: the batch at the end of the last finished iteration
    endWritten,      \* endWritten[w]: records the last end-of-sweep flush has written
    flushedOnce,     \* records some flush has written
    flushedTwice,    \* records a second flush has written again
    called,          \* called[w]: positions of case_list process_case was called for
                     \* in the current sweep, in call order
    read,            \* state of one get_cases request (SpecRead)
    alg              \* state of the flush experiments (SpecAlg)

cfgVars == <<BATCH_SIZE, MAX_RETRIES, MAX_THREADS, case_file, price_source>>
mainVars == <<main_pc, case_list, started>>
workerVars == <<pc, idx, retries, processed_case, cases_batch, flushPos>>
histVars == <<attempts, produced, fetched, lastUpsert, sweepFailed, sweepWritten, endBatch, endWritten,
              flushedOnce, flushedTwice, called>>
vars == <<cfgVars, mainVars, workerVars, table, now, histVars, alg, read>>

(* --------------------------- process_case ------------------------------ *)
\* dict.get(key, default)
Get(d, k, default) == IF k \in DOMAIN d THEN d[k] ELSE default

\* the tuple process_case returns for a response
MakeRecordWrongKey(case, data, t) ==
    [name |-> case.name,
     price |-> Get(data, "price", NA),
     volume |-> Get(data, "volume", NA),
     median_price |-> Get(data, "median_price", NA),
     picture_url |-> Get(case, "image", NA),
     last_updated |-> t]
MakeRecord(case, data, t) ==
    [name |-> case.name,
     price |-> Get(data, "lowest_price", NA),
     volume |-> Get(data, "volume", NA),
     median_price |-> Get(data, "median_price", NA),
     picture_url |-> Get(case, "image", NA),
     last_updated |-> t]

\* while retries < MAX_RETRIES
RetryGuardOffByOne(r, max) == r <= max
RetryGuard(r, max) == r < max

(* -------------------------- batch_insert_to_db ------------------------- *)
HasRow(tbl, n) == \E row \in tbl : row.name = n

RowOf(tbl, n) == CHOOSE row \in tbl : row.name = n

\* INSERT ... ON CONFLICT (name) DO UPDATE SET ... of one parameter tuple
UpsertKeepNewest(tbl, r) ==
    IF HasRow(tbl, r.name)
    THEN {IF row.name = r.name /\ row.last_updated <= r.last_updated
          THEN r ELSE row : row \in tbl}
    ELSE tbl \cup {r}
UpsertStaleColumn(tbl, r) ==
    IF HasRow(tbl, r.name)
    THEN {IF row.name = r.name
          THEN [row EXCEPT !.price = r.price, !.volume = r.volume,
                           !.median_price = row.price,
                           !.picture_url = r.picture_url,
                           !.last_updated = r.last_updated]
          ELSE row : row \in tbl}
    ELSE tbl \cup {r}
UpsertAlwaysInsert(tbl, r) == tbl \cup {r}
UpsertNoTimestamp(tbl, r) ==
    IF HasRow(tbl, r.name)
    THEN {IF row.name = r.name
          THEN [row EXCEPT !.price = r.price, !.volume = r.volume,
                           !.median_price = r.median_price,
                           !.picture_url = r.picture_url]
          ELSE row : row \in tbl}
    ELSE tbl \cup {r}
Upsert(tbl, r) ==
    IF HasRow(tbl, r.name)
    THEN {IF row.name = r.name
          THEN [row EXCEPT !.price = r.price, !.volume = r.volume,
                           !.median_price = r.median_price,
                           !.picture_url = r.picture_url,
                           !.last_updated = r.last_updated]
          ELSE row : row \in tbl}
    ELSE tbl \cup {r}

\* executemany: one statement per tuple, in the order of the batch
RECURSIVE ExecuteMany(_, _)
ExecuteMany(tbl, batch) ==
    IF batch = <<>> THEN tbl
    ELSE ExecuteMany(Upsert(tbl, Head(batch)), Tail(batch))

\* batch_insert_to_db without a storage error
BatchInsert(tbl, batch) == IF batch # <<>> THEN ExecuteMany(tbl, batch) ELSE tbl

(* ----------------------------- worker_thread --------------------------- *)
\* if len(cases_batch) >= BATCH_SIZE
ThresholdStrict(batch, size) == Len(batch) > size
Threshold(batch, size) == Len(batch) >= size

\* if cases_batch (after the for loop)
RemainingInverted(batch) == batch = <<>>
Remaining(batch) == batch # <<>>

Range(s) == {s[i] : i \in 1..Len(s)}

\* The number of tuples of the batch, from position pos on, that one committed
\* storage step applies.  executemany sends one INSERT per tuple and the
\* connection is in autocommit mode, so every tuple is committed on its own;
\* the conn.commit() that follows finds nothing left to commit.
CommitUnitWholeBatch(batch, pos) == Len(batch) - pos + 1

CommitUnit(batch, pos) == 1

AlgIdle == [phase |-> "off"]

\* no get_cases request is being served
ReadIdle == [pc |-> "idle"]

\* SQL NULL, Python None, where a timestamp is expected (timestamps are >= 1)
Null == 0

(* ------------------------------- Init ---------------------------------- *)
\* the state when config.json is read and nothing has run
Boot ==
    /\ main_pc = "load"
    /\ case_list = <<>>
    /\ started = 0
    /\ pc = [w \in Workers |-> "unstarted"]
    /\ idx = [w \in Workers |-> 1]
    /\ retries = [w \in Workers |-> 0]
    /\ processed_case = [w \in Workers |-> None]
    /\ cases_batch = [w \in Workers |-> <<>>]
    /\ flushPos = [w \in Workers |-> 1]
    /\ table = {}
    /\ now = 1
    /\ attempts = [w \in Workers |-> 0]
    /\ produced = {}
    /\ fetched = {}
    /\ lastUpsert = [n \in Names |-> None]
    /\ sweepFailed = [w \in Workers |-> {}]
    /\ sweepWritten = [w \in Workers |-> {}]
    /\ endBatch = [w \in Workers |-> <<>>]
    /\ endWritten = [w \in Workers |-> <<>>]
    /\ flushedOnce = {}
    /\ flushedTwice = {}
    /\ called = [w \in Workers |-> <<>>]
    /\ alg = AlgIdle
    /\ read = ReadIdle

Init ==
    /\ BATCH_SIZE \in 1..MaxBatchSize
    /\ MAX_RETRIES \in 1..MaxRetries
    /\ MAX_THREADS \in 1..MaxThreads
    /\ case_file \in CatalogFiles
    /\ price_source = Responses
    /\ Boot

\* one worker, any response of the price source
InitSingle ==
    /\ BATCH_SIZE \in 1..MaxBatchSizeSingle
    /\ MAX_RETRIES \in 1..MaxRetries
    /\ MAX_THREADS = 1
    /\ case_file \in CatalogFiles
    /\ price_source = AllResponses
    /\ Boot

(* ------------------------------- main ---------------------------------- *)
\* json.load(CASE_FILE) raises neither FileNotFoundError nor JSONDecodeError,
\* and len(case_list) is not 0
CatalogUsableNoBlankCheck(file) == file.kind = "list"
CatalogUsable(file) == file.kind = "list" /\ Len(file.items) # 0

\* where "for case in case_list" begins: in process_case of the first case, or
\* past the loop when the list is empty
FirstPc == IF Len(case_list) = 0 THEN "sweepend" ELSE "fetch"

\* main up to the thread pool: json.load(CASE_FILE) and the blank-file check
LoadCatalog ==
    /\ main_pc = "load"
    /\ IF CatalogUsable(case_file)
       THEN /\ case_list' = case_file.items
            /\ main_pc' = "spawn"
       ELSE /\ main_pc' = "returned"
            /\ UNCHANGED case_list
    /\ UNCHANGED <<cfgVars, started, workerVars, table, now, histVars, alg, read>>

\* one turn of: for i in range(MAX_THREADS): t.start()
StartThread ==
    /\ main_pc = "spawn"
    /\ started < MAX_THREADS
    /\ pc' = [pc EXCEPT ![started + 1] = "stagger"]
    /\ started' = started + 1
    /\ main_pc' = IF started + 1 = MAX_THREADS THEN "join" ELSE "spawn"
    /\ UNCHANGED <<cfgVars, case_list, idx, retries, processed_case, cases_batch,
                   flushPos, table, now, histVars, alg, read>>

\* for t in threads: t.join()
JoinThreads ==
    /\ main_pc = "join"
    /\ \A w \in 1..MAX_THREADS : pc[w] = "terminated"
    /\ main_pc' = "returned"
    /\ UNCHANGED <<cfgVars, case_list, started, workerVars, table, now, histVars, alg, read>>

(* ------------------------------ workers -------------------------------- *)
\* time.sleep(start_delay), the session and a successful psycopg2.connect
Connect(w) ==
    /\ pc[w] = "stagger"
    /\ pc' = [pc EXCEPT ![w] = FirstPc]
    /\ called' = [called EXCEPT ![w] = IF Len(case_list) = 0 THEN <<>> ELSE <<1>>]
    /\ idx' = [idx EXCEPT ![w] = 1]
    /\ retries' = [retries EXCEPT ![w] = 0]
    /\ cases_batch' = [cases_batch EXCEPT ![w] = <<>>]
    /\ attempts' = [attempts EXCEPT ![w] = 0]
    /\ UNCHANGED <<cfgVars, mainVars, processed_case, flushPos, table, now, produced, fetched,
                   lastUpsert, sweepFailed, sweepWritten, endBatch, endWritten, flushedOnce, flushedTwice, alg, read>>

\* psycopg2.connect raises: nothing in worker_thread catches it
ConnectFail(w) ==
    /\ pc[w] = "stagger"
    /\ pc' = [pc EXCEPT ![w] = "terminated"]
    /\ UNCHANGED <<cfgVars, mainVars, idx, retries, processed_case, cases_batch,
                   flushPos, table, now, histVars, alg, read>>

\* one turn of the while loop whose session.get succeeds
FetchSuccess(w) ==
    /\ pc[w] = "fetch"
    /\ RetryGuard(retries[w], MAX_RETRIES)
    /\ now <= MaxClock
    /\ \E data \in price_source :
         LET rec == MakeRecord(case_list[idx[w]], data, now) IN
         /\ processed_case' = [processed_case EXCEPT ![w] = rec]
         /\ produced' = produced \cup {rec}
         /\ fetched' = fetched \cup {[case |-> case_list[idx[w]], data |-> data, t |-> now]}
    /\ now' = now + 1
    /\ attempts' = [attempts EXCEPT ![w] = @ + 1]
    /\ pc' = [pc EXCEPT ![w] = "returned"]
    /\ UNCHANGED <<cfgVars, mainVars, idx, retries, cases_batch, flushPos, table,
                   lastUpsert, sweepFailed, sweepWritten, endBatch, endWritten, flushedOnce, flushedTwice, called, alg, read>>

\* one turn of the while loop that ends in except requests.RequestException
FetchFail(w) ==
    /\ pc[w] = "fetch"
    /\ RetryGuard(retries[w], MAX_RETRIES)
    /\ retries' = [retries EXCEPT ![w] = @ + 1]
    /\ attempts' = [attempts EXCEPT ![w] = @ + 1]
    /\ UNCHANGED <<cfgVars, mainVars, pc, idx, processed_case, cases_batch, flushPos,
                   table, now, produced, fetched, lastUpsert, sweepFailed, sweepWritten,
                   endBatch, endWritten, flushedOnce, flushedTwice, called, alg, read>>

\* the while loop ends: return None
GiveUp(w) ==
    /\ pc[w] = "fetch"
    /\ ~RetryGuard(retries[w], MAX_RETRIES)
    /\ processed_case' = [processed_case EXCEPT ![w] = None]
    /\ sweepFailed' = [sweepFailed EXCEPT ![w] = @ \cup {case_list[idx[w]].name}]
    /\ pc' = [pc EXCEPT ![w] = "returned"]
    /\ UNCHANGED <<cfgVars, mainVars, idx, retries, cases_batch, flushPos, table, now,
                   attempts, produced, fetched, lastUpsert, sweepWritten, endBatch, endWritten, flushedOnce, flushedTwice, called, alg, read>>

\* the for loop moves to its next case, or ends
NextCaseBreakOnFailure(w) ==
    IF idx[w] < Len(case_list) /\ processed_case[w] # None
    THEN /\ idx' = [idx EXCEPT ![w] = @ + 1]
         /\ pc' = [pc EXCEPT ![w] = "fetch"]
         /\ retries' = [retries EXCEPT ![w] = 0]
         /\ attempts' = [attempts EXCEPT ![w] = 0]
         /\ called' = [called EXCEPT ![w] = Append(@, idx[w] + 1)]
    ELSE /\ pc' = [pc EXCEPT ![w] = "sweepend"]
         /\ UNCHANGED <<idx, retries, attempts, called>>
NextCaseSharedPosition(w) ==
    IF idx[w] < Len(case_list)
    THEN /\ idx' = [v \in Workers |-> idx[w] + 1]
         /\ pc' = [pc EXCEPT ![w] = "fetch"]
         /\ retries' = [retries EXCEPT ![w] = 0]
         /\ attempts' = [attempts EXCEPT ![w] = 0]
         /\ called' = [called EXCEPT ![w] = Append(@, idx[w] + 1)]
    ELSE /\ pc' = [pc EXCEPT ![w] = "sweepend"]
         /\ UNCHANGED <<idx, retries, attempts, called>>
NextCase(w) ==
    IF idx[w] < Len(case_list)
    THEN /\ idx' = [idx EXCEPT ![w] = @ + 1]
         /\ pc' = [pc EXCEPT ![w] = "fetch"]
         /\ retries' = [retries EXCEPT ![w] = 0]
         /\ attempts' = [attempts EXCEPT ![w] = 0]
         /\ called' = [called EXCEPT ![w] = Append(@, idx[w] + 1)]
    ELSE /\ pc' = [pc EXCEPT ![w] = "sweepend"]
         /\ UNCHANGED <<idx, retries, attempts, called>>

\* if processed_case: append; if len(cases_batch) >= BATCH_SIZE: start the flush
AppendCheck(w) ==
    /\ pc[w] = "returned"
    /\ LET batch == IF processed_case[w] # None
                    THEN Append(cases_batch[w], processed_case[w])
                    ELSE cases_batch[w] IN
       IF Threshold(batch, BATCH_SIZE)
       THEN /\ cases_batch' = [cases_batch EXCEPT ![w] = batch]
            /\ pc' = [pc EXCEPT ![w] = "flushT"]
            /\ flushPos' = [flushPos EXCEPT ![w] = 1]
            /\ UNCHANGED <<idx, retries, attempts, called>>
       ELSE /\ cases_batch' = [cases_batch EXCEPT ![w] = batch]
            /\ NextCase(w)
            /\ UNCHANGED flushPos
    /\ UNCHANGED <<cfgVars, mainVars, processed_case, table, now, produced, fetched, lastUpsert,
                   sweepFailed, sweepWritten, endBatch, endWritten, flushedOnce, flushedTwice, alg, read>>

\* executemany sends one tuple; the autocommit connection commits it
UpsertStep(w) ==
    /\ pc[w] \in {"flushT", "flushE"}
    /\ flushPos[w] <= Len(cases_batch[w])
    /\ LET n    == CommitUnit(cases_batch[w], flushPos[w])
           recs == SubSeq(cases_batch[w], flushPos[w], flushPos[w] + n - 1)
       IN
         /\ table' = ExecuteMany(table, recs)
         /\ lastUpsert' = [nm \in Names |->
                              IF \E i \in 1..n : recs[i].name = nm
                              THEN recs[CHOOSE i \in 1..n :
                                          /\ recs[i].name = nm
                                          /\ \A j \in (i + 1)..n : recs[j].name # nm]
                              ELSE lastUpsert[nm]]
         /\ sweepWritten' = [sweepWritten EXCEPT
                                ![w] = @ \cup {recs[i].name : i \in 1..n}]
         /\ endWritten' = IF pc[w] = "flushE"
                          THEN [endWritten EXCEPT ![w] = @ \o recs]
                          ELSE endWritten
         /\ flushedOnce' = flushedOnce \cup Range(recs)
         /\ flushedTwice' = flushedTwice \cup (Range(recs) \cap flushedOnce)
         /\ flushPos' = [flushPos EXCEPT ![w] = @ + n]
    /\ UNCHANGED <<cfgVars, mainVars, pc, idx, retries, processed_case, cases_batch,
                   now, attempts, produced, fetched, sweepFailed, endBatch, called, alg, read>>

\* batch_insert_to_db returns; after the threshold flush, cases_batch.clear();
\* after the flush that follows the for loop, time.sleep(1) begins
FlushDone(w) ==
    /\ pc[w] \in {"flushT", "flushE"}
    /\ flushPos[w] > Len(cases_batch[w])
    /\ IF pc[w] = "flushT"
       THEN /\ cases_batch' = [cases_batch EXCEPT ![w] = <<>>]
            /\ NextCase(w)
       ELSE /\ pc' = [pc EXCEPT ![w] = "idle"]
            /\ UNCHANGED <<cases_batch, idx, retries, attempts, called>>
    /\ UNCHANGED <<cfgVars, mainVars, processed_case, flushPos, table, now, produced, fetched,
                   lastUpsert, sweepFailed, sweepWritten, endBatch, endWritten, flushedOnce, flushedTwice, alg, read>>

\* the cursor, a statement or the commit raises psycopg2.Error: nothing in
\* worker_thread catches it, the thread ends
FlushFail(w) ==
    /\ pc[w] \in {"flushT", "flushE"}
    /\ pc' = [pc EXCEPT ![w] = "terminated"]
    /\ UNCHANGED <<cfgVars, mainVars, idx, retries, processed_case, cases_batch,
                   flushPos, table, now, histVars, alg, read>>

\* after the for loop: if cases_batch: batch_insert_to_db(cases_batch, conn)
EndOfSweep(w) ==
    /\ pc[w] = "sweepend"
    /\ endBatch' = [endBatch EXCEPT ![w] = cases_batch[w]]
    /\ endWritten' = [endWritten EXCEPT ![w] = <<>>]
    /\ IF Remaining(cases_batch[w])
       THEN /\ pc' = [pc EXCEPT ![w] = "flushE"]
            /\ flushPos' = [flushPos EXCEPT ![w] = 1]
       ELSE /\ pc' = [pc EXCEPT ![w] = "idle"]
            /\ UNCHANGED flushPos
    /\ UNCHANGED <<cfgVars, mainVars, idx, retries, processed_case, cases_batch, table,
                   now, attempts, produced, fetched, lastUpsert, sweepFailed, sweepWritten,
                   flushedOnce, flushedTwice, called, alg, read>>

\* time.sleep(1) ends and while True starts the next for loop
NextSweep(w) ==
    /\ pc[w] = "idle"
    /\ pc' = [pc EXCEPT ![w] = FirstPc]
    /\ called' = [called EXCEPT ![w] = IF Len(case_list) = 0 THEN <<>> ELSE <<1>>]
    /\ idx' = [idx EXCEPT ![w] = 1]
    /\ retries' = [retries EXCEPT ![w] = 0]
    /\ attempts' = [attempts EXCEPT ![w] = 0]
    /\ sweepFailed' = [sweepFailed EXCEPT ![w] = {}]
    /\ sweepWritten' = [sweepWritten EXCEPT ![w] = {}]
    /\ UNCHANGED <<cfgVars, mainVars, processed_case, cases_batch, flushPos, table,
                   now, produced, fetched, lastUpsert, endBatch, endWritten, flushedOnce, flushedTwice, alg, read>>

Next ==
    \/ LoadCatalog
    \/ StartThread
    \/ JoinThreads
    \/ \E w \in Workers : Connect(w)
    \/ \E w \in Workers : ConnectFail(w)
    \/ \E w \in Workers : FetchSuccess(w)
    \/ \E w \in Workers : FetchFail(w)
    \/ \E w \in Workers : GiveUp(w)
    \/ \E w \in Workers : AppendCheck(w)
    \/ \E w \in Workers : UpsertStep(w)
    \/ \E w \in Workers : FlushDone(w)
    \/ \E w \in Workers : FlushFail(w)
    \/ \E w \in Workers : EndOfSweep(w)
    \/ \E w \in Workers : NextSweep(w)

Spec == Init /\ [][Next]_vars

SpecSingle == InitSingle /\ [][Next]_vars

(* ------------------- batch_insert_to_db as a function ------------------ *)
\* tuples process_case can return
AlgRecords ==
    {MakeRecord(case, data, t) :
        case \in {ItemA, ItemB}, data \in Responses, t \in 1..MaxClock}

\* tables with at most one row per name
AlgTables ==
    {ra \cup rb :
        ra \in {{}} \cup {{r} : r \in {x \in AlgRecords : x.name = ItemA.name}},
        rb \in {{}} \cup {{r} : r \in {x \in AlgRecords : x.name = ItemB.name}}}

AlgBatches == UNION {[1..n -> AlgRecords] : n \in 0..MaxAlgLen}

InitAlg ==
    /\ BATCH_SIZE = 1
    /\ MAX_RETRIES = 1
    /\ MAX_THREADS = 1
    /\ case_file = [kind |-> "list", items |-> <<ItemA, ItemB>>]
    /\ price_source = Responses
    /\ main_pc = "load"
    /\ case_list = <<>>
    /\ started = 0
    /\ pc = [w \in Workers |-> "unstarted"]
    /\ idx = [w \in Workers |-> 1]
    /\ retries = [w \in Workers |-> 0]
    /\ processed_case = [w \in Workers |-> None]
    /\ cases_batch = [w \in Workers |-> <<>>]
    /\ flushPos = [w \in Workers |-> 1]
    /\ table = {}
    /\ now = 1
    /\ attempts = [w \in Workers |-> 0]
    /\ produced = {}
    /\ fetched = {}
    /\ lastUpsert = [n \in Names |-> None]
    /\ sweepFailed = [w \in Workers |-> {}]
    /\ sweepWritten = [w \in Workers |-> {}]
    /\ endBatch = [w \in Workers |-> <<>>]
    /\ endWritten = [w \in Workers |-> <<>>]
    /\ flushedOnce = {}
    /\ flushedTwice = {}
    /\ called = [w \in Workers |-> <<>>]
    /\ read = ReadIdle
    /\ \E t \in AlgTables, b \in AlgBatches :
         alg = [phase |-> "start", tbl |-> t, batch |-> b,
                once |-> {}, twice |-> {}, ab |-> {}, ba |-> {}]

mainModel == <<cfgVars, mainVars, workerVars, table, now, histVars, read>>

\* batch_insert_to_db(cases_batch, conn) on the table
AlgFlushOnce ==
    /\ alg.phase = "start"
    /\ alg' = [alg EXCEPT !.phase = "once", !.once = BatchInsert(alg.tbl, alg.batch)]
    /\ UNCHANGED mainModel

\* the same call again
AlgFlushTwice ==
    /\ alg.phase = "once"
    /\ alg' = [alg EXCEPT !.phase = "twice", !.twice = BatchInsert(alg.once, alg.batch)]
    /\ UNCHANGED mainModel

\* two records of one name: the first record's upsert commits first
AlgUpsertAB ==
    /\ alg.phase = "start"
    /\ Len(alg.batch) = 2
    /\ alg.batch[1].name = alg.batch[2].name
    /\ alg' = [alg EXCEPT !.phase = "ab",
                          !.ab = Upsert(Upsert(alg.tbl, alg.batch[1]), alg.batch[2])]
    /\ UNCHANGED mainModel

\* the same two upserts, the second record's commits first
AlgUpsertBA ==
    /\ alg.phase = "ab"
    /\ alg' = [alg EXCEPT !.phase = "ba",
                          !.ba = Upsert(Upsert(alg.tbl, alg.batch[2]), alg.batch[1])]
    /\ UNCHANGED mainModel

(* ------------------------------ get_cases ----------------------------- *)
\* SELECT MIN(last_updated) FROM table
MinLastUpdated(tbl) ==
    IF tbl = {} THEN Null
    ELSE CHOOSE m \in {row.last_updated : row \in tbl} :
             \A row \in tbl : m <= row.last_updated

\* connect, then the first statement: oldest_update = cursor.fetchone()[0]
ReadMin ==
    /\ read.pc \in {"idle", "done", "error"}
    /\ read' = [pc |-> "min", oldest_update |-> MinLastUpdated(table)]
    /\ UNCHANGED <<cfgVars, mainVars, workerVars, table, now, histVars, alg>>

\* the second statement, SELECT *, and the response
\* jsonify({"last_updated": oldest_update, "cases": cases})
ReadAll ==
    /\ read.pc = "min"
    /\ read' = [pc |-> "done", oldest_update |-> read.oldest_update, cases |-> table]
    /\ UNCHANGED <<cfgVars, mainVars, workerVars, table, now, histVars, alg>>

\* except psycopg2.Error: the response is {"error": ...}, 500
ReadFail ==
    /\ read.pc \in {"idle", "done", "error", "min"}
    /\ read' = [pc |-> "error"]
    /\ UNCHANGED <<cfgVars, mainVars, workerVars, table, now, histVars, alg>>

InitRead ==
    /\ Init
    /\ MAX_RETRIES = 1
    /\ BATCH_SIZE = 1
    /\ case_file.kind = "list"
    /\ Len(case_file.items) <= 1

NextRead ==
    \/ Next
    \/ ReadMin
    \/ ReadAll
    \/ ReadFail

SpecRead == InitRead /\ [][NextRead]_vars

NextAlg ==
    \/ AlgFlushOnce
    \/ AlgFlushTwice
    \/ AlgUpsertAB
    \/ AlgUpsertBA

SpecAlg == InitAlg /\ [][NextAlg]_vars

(* ============================== properties ============================= *)
InSweep(w) == pc[w] \in {"fetch", "returned", "flushT", "sweepend"}

\* C1: one call of process_case issues at most MAX_RETRIES fetch attempts; it
\* returns a record at its first successful attempt (every attempt before it
\* failed, none follows it) and returns None only after exactly MAX_RETRIES
\* failed attempts.
C1_RetryBound ==
    \A w \in Workers :
        /\ attempts[w] <= MAX_RETRIES
        /\ pc[w] = "returned" =>
             IF processed_case[w] = None
             THEN attempts[w] = MAX_RETRIES /\ retries[w] = MAX_RETRIES
             ELSE attempts[w] = retries[w] + 1

C1_Witness ==
    \E w \in Workers :
        /\ pc[w] = "returned"
        /\ processed_case[w] = None
        /\ MAX_RETRIES = 2
        /\ attempts[w] = 2

\* C2: at the per-item threshold check a flush of the batch starts exactly when
\* the batch holds at least BATCH_SIZE records; a threshold flush starts nowhere
\* else; when it returns the batch is empty and the worker goes on to the next
\* item or to the end of the sweep, not to another flush of that batch.
C2_ThresholdFlush ==
    [][\A w \in Workers :
        /\ (pc[w] = "returned" /\ pc'[w] # "returned") =>
             (Len(cases_batch'[w]) >= BATCH_SIZE <=> pc'[w] = "flushT")
        /\ (pc[w] # "flushT" /\ pc'[w] = "flushT") =>
             (pc[w] = "returned" /\ flushPos'[w] = 1)
        /\ (pc[w] = "flushT" /\ pc'[w] \notin {"flushT", "terminated"}) =>
             /\ cases_batch'[w] = <<>>
             /\ pc'[w] \in {"fetch", "sweepend"}
             /\ flushPos[w] = Len(cases_batch[w]) + 1
             /\ \A i \in 1..Len(cases_batch[w]) : cases_batch[w][i] \in flushedOnce
      ]_vars

C2_Witness ==
    \E w \in Workers :
        /\ BATCH_SIZE = 2
        /\ pc[w] = "sweepend"
        /\ cases_batch[w] = <<>>
        /\ Len(case_list) = 2
        /\ Cardinality({r \in flushedOnce : r \in table}) = 2

\* C3: a worker that is in a sweep has had the batch it held at the end of its
\* previous iteration of the catalog written to storage, record by record, by
\* the flush that follows the for loop.
C3_EndOfSweepFlush ==
    \A w \in Workers : InSweep(w) => endWritten[w] = endBatch[w]

C3_Witness ==
    \E w \in Workers :
        /\ pc[w] = "fetch"
        /\ idx[w] = 1
        /\ attempts[w] = 0
        /\ endBatch[w] # <<>>
        /\ Len(endBatch[w]) < BATCH_SIZE
        /\ endWritten[w] = endBatch[w]

\* C4: after every successful flush the batch is empty: a worker that sleeps
\* between sweeps or starts a sweep holds an empty batch, and no record is
\* written by more than one flush.
C4_BatchClearedAfterFlush ==
    /\ \A w \in Workers :
         /\ pc[w] = "idle" => cases_batch[w] = <<>>
         /\ (pc[w] = "fetch" /\ idx[w] = 1 /\ attempts[w] = 0) => cases_batch[w] = <<>>
    /\ flushedTwice = {}

\* C5: a name process_case gave up on in a sweep (after exactly MAX_RETRIES
\* attempts) is not written to storage by that worker during that sweep.
C5_FailedItemNotWritten ==
    \A w \in Workers :
        /\ (pc[w] = "returned" /\ processed_case[w] = None) => attempts[w] = MAX_RETRIES
        /\ sweepFailed[w] \cap sweepWritten[w] = {}

\* C6: no worker that was flushing a batch is ever terminated.
C6_FlushErrorKeepsWorker ==
    \A w \in Workers : ~(pc[w] = "terminated" /\ cases_batch[w] # <<>>)

\* C7 as stated: the stored row of a name carries the latest observation time
\* among the records flushed for that name.
C7_LatestObservationStored ==
    \A row \in table : \A r \in flushedOnce :
        r.name = row.name => r.last_updated <= row.last_updated

\* C7 as amended: every committed upsert leaves its own record as the row of
\* its name, whatever the observation time of the row it replaces, and leaves
\* the rows of the other names alone.
C7_LastWriteWins ==
    [][\A w \in Workers :
        flushPos'[w] = flushPos[w] + 1 =>
            LET rec == cases_batch[w][flushPos[w]] IN
            /\ rec \in table'
            /\ \A row \in table' : row.name = rec.name => row = rec
            /\ {row \in table' : row.name # rec.name} = {row \in table : row.name # rec.name}
      ]_vars

C7_Witness ==
    \E row \in table : \E r \in flushedOnce :
        /\ r.name = row.name
        /\ r.last_updated > row.last_updated
        /\ lastUpsert[row.name] = row

\* C8: every stored row is, in all its fields, one record a fetch of that name
\* produced, and it is the record of the upsert of that name committed last.
C8_NoPartialRows ==
    \A row \in table :
        /\ row \in produced
        /\ row = lastUpsert[row.name]

C8_Witness ==
    \E row \in table : \E r \in flushedOnce :
        /\ r.name = row.name
        /\ r.price # row.price
        /\ r.last_updated < row.last_updated
        /\ \A w \in 1..2 : pc[w] \in {"idle", "fetch"}

\* C9: flushing a batch twice in a row leaves the table as flushing it once.
C9_FlushIdempotent ==
    alg.phase = "twice" => alg.twice = alg.once

C9_Witness ==
    /\ alg.phase = "twice"
    /\ Len(alg.batch) = 2
    /\ alg.batch[1].name = alg.batch[2].name
    /\ alg.batch[1] # alg.batch[2]
    /\ alg.tbl # {}
    /\ alg.once # alg.tbl

\* C10 as stated: the two orders of two upserts of one name give the same table.
C10_UpsertsCommute ==
    alg.phase = "ba" => alg.ab = alg.ba

\* C10 as amended: the row of the name is the record upserted last, so the two
\* orders give the same table exactly when the two records are equal.
C10_LastUpsertDecides ==
    alg.phase = "ba" =>
        LET r1 == alg.batch[1]
            r2 == alg.batch[2] IN
        /\ RowOf(alg.ab, r1.name) = r2
        /\ RowOf(alg.ba, r1.name) = r1
        /\ (alg.ab = alg.ba <=> r1 = r2)

C10_Witness ==
    /\ alg.phase = "ba"
    /\ alg.batch[1] # alg.batch[2]
    /\ alg.ab # alg.ba
    /\ HasRow(alg.tbl, alg.batch[1].name)

\* C11: a catalog file that is missing, malformed or an empty list starts no
\* worker (main returns after reporting), so there is no fetch attempt and no
\* storage write; any other catalog is the list every worker reads, and once
\* the thread pool is started exactly the workers 1..MAX_THREADS run.
C11_StartupErrors ==
    IF case_file.kind # "list" \/ Len(case_file.items) = 0
    THEN /\ main_pc \in {"load", "returned"}
         /\ started = 0
         /\ \A w \in Workers : pc[w] = "unstarted" /\ attempts[w] = 0
         /\ produced = {}
         /\ table = {}
         /\ flushedOnce = {}
    ELSE /\ started <= MAX_THREADS
         /\ {w \in Workers : pc[w] # "unstarted"} = 1..started
         /\ main_pc # "load" => case_list = case_file.items
         /\ main_pc \in {"join", "returned"} => started = MAX_THREADS

C11_Witness ==
    /\ case_file.kind = "list"
    /\ Len(case_file.items) = 0
    /\ main_pc = "returned"
    /\ started = 0

\* C12: in every sweep process_case is called once for each catalog item, in
\* catalog order, whatever the earlier calls returned: while the worker is at
\* item idx the calls of the sweep are those for items 1..idx, and once the for
\* loop is over they are those for all items.
C12_SweepCallsEveryItem ==
    \A w \in Workers :
        /\ pc[w] \in {"fetch", "returned", "flushT"} =>
              called[w] = [i \in 1..idx[w] |-> i]
        /\ pc[w] \in {"sweepend", "flushE", "idle"} =>
              called[w] = [i \in 1..Len(case_list) |-> i]

C12_Witness ==
    \E w \in Workers :
        /\ pc[w] = "fetch"
        /\ idx[w] = 2
        /\ called[w] = <<1, 2>>
        /\ attempts[w] >= 1
        /\ ItemA.name \in sweepFailed[w]
        /\ endBatch[w] # <<>>

Phase(p) ==
    CASE p = "unstarted" -> "Unstarted"
      [] p = "stagger" -> "Staggering"
      [] p \in {"fetch", "returned", "flushT", "sweepend", "flushE"} -> "Sweeping"
      [] p = "idle" -> "Idle"
      [] p = "terminated" -> "Terminated"

\* C13: a worker's states change only along Staggering -> Sweeping -> Idle ->
\* Sweeping (after its thread is started): it is never in a state outside
\* these three and never back in Staggering.
C13_NoTerminalState ==
    [][\A w \in Workers :
        Phase(pc[w]) # Phase(pc'[w]) =>
            <<Phase(pc[w]), Phase(pc'[w])>> \in
                {<<"Unstarted", "Staggering">>, <<"Staggering", "Sweeping">>,
                 <<"Sweeping", "Idle">>, <<"Idle", "Sweeping">>}
      ]_vars

\* C14: the table holds at most one row per item name, and every stored name
\* is the name of an item of the catalog.
C14_OneRowPerName ==
    /\ \A r1 \in table : \A r2 \in table : r1.name = r2.name => r1 = r2
    /\ \A row \in table : \E i \in 1..Len(case_list) : case_list[i].name = row.name

\* two workers have each sent a first record of the same name, and nothing
\* else was ever written: both met a table without a row of that name or one
\* of them met the other's row
C14_Witness ==
    \E w \in Workers : \E v \in Workers \ {w} :
        /\ pc[w] \in {"flushT", "flushE"}
        /\ pc[v] \in {"flushT", "flushE"}
        /\ flushPos[w] = 2
        /\ flushPos[v] = 2
        /\ cases_batch[w][1].name = cases_batch[v][1].name
        /\ flushedOnce = {cases_batch[w][1], cases_batch[v][1]}
        /\ Cardinality(table) = 1

\* C15: in every successful response of get_cases, last_updated is the oldest
\* last_updated among the rows of the cases array of that response (null for
\* an empty array).
C15_ReadConsistent ==
    read.pc = "done" => read.oldest_update = MinLastUpdated(read.cases)

\* r carries the item's name, the response's value for each of the three keys
\* the response holds and "N/A" for each key it lacks
Sentinels(f, r) ==
    /\ r.name = f.case.name
    /\ r.price = (IF "lowest_price" \in DOMAIN f.data THEN f.data["lowest_price"] ELSE "N/A")
    /\ r.volume = (IF "volume" \in DOMAIN f.data THEN f.data["volume"] ELSE "N/A")
    /\ r.median_price = (IF "median_price" \in DOMAIN f.data THEN f.data["median_price"] ELSE "N/A")

\* C16: a successful session.get whose JSON object lacks any of the three keys
\* ends process_case at once (no attempt follows it) with a record that
\* carries "N/A" for exactly the missing keys; the record goes into the batch,
\* and every stored row carries the values and sentinels of the response it
\* comes from.
C16_SentinelDefaults ==
    /\ \A w \in Workers :
         (pc[w] = "returned" /\ processed_case[w] # None) =>
            /\ attempts[w] = retries[w] + 1
            /\ \E f \in fetched :
                 /\ f.t = processed_case[w].last_updated
                 /\ f.case = case_list[idx[w]]
                 /\ Sentinels(f, processed_case[w])
    /\ \A f \in fetched :
         \E r \in produced :
            /\ r.last_updated = f.t
            /\ Sentinels(f, r)
            /\ \/ r \in flushedOnce
               \/ \E w \in Workers :
                    \/ r \in Range(cases_batch[w])
                    \/ pc[w] = "returned" /\ processed_case[w] = r
    /\ \A row \in table :
         \E f \in fetched : f.t = row.last_updated /\ Sentinels(f, row)

C16_Witness ==
    \E row \in table :
        /\ row.name = ItemA.name
        /\ row.price = "N/A"
        /\ row.volume = "500"
        /\ row.median_price = "N/A"
        /\ \E f \in fetched : f.t = row.last_updated /\ DOMAIN f.data = {"volume"}
        /\ \E other \in table : other.price = "$1.23" /\ other.volume = "N/A"

\* worker w is inside batch_insert_to_db
InFlush(w) == pc[w] \in {"flushT", "flushE"}

\* worker w has written some, not all, records of the batch it is flushing
MidFlush(w) ==
    /\ InFlush(w)
    /\ 1 < flushPos[w]
    /\ flushPos[w] <= Len(cases_batch[w])

\* C17, as stated: a flush is a single bulk storage step, all records of one
\* batch take effect together: while a worker is between the writes of two
\* records of its batch no other worker's upsert and no read takes place, and
\* a flush that fails has written none of its batch's records.
C17_FlushIsAtomic ==
    [][\A w \in Workers :
          /\ (InFlush(w) /\ pc'[w] = "terminated") => flushPos[w] = 1
          /\ MidFlush(w) =>
                /\ \A v \in Workers \ {w} : flushPos'[v] <= flushPos[v]
                /\ read' = read]_vars

\* C17, amended: a flush is a sequence of storage steps, one per record, each
\* committed on its own (autocommit): a step writes exactly the next record
\* of the batch, making it the stored row of its name and changing no other
\* row, and a flush that fails rolls nothing back: every record before the
\* failure point has been written and stays written, the rest are not
\* written by this flush.
C17_PerRecordCommit ==
    [][\A w \in Workers :
          /\ flushPos'[w] > flushPos[w] =>
                LET rec == cases_batch[w][flushPos[w]] IN
                  /\ InFlush(w)
                  /\ flushPos'[w] = flushPos[w] + 1
                  /\ rec \in table'
                  /\ \A row \in table' : row.name = rec.name => row = rec
                  /\ {row \in table' : row.name # rec.name}
                        = {row \in table : row.name # rec.name}
                  /\ lastUpsert' = [lastUpsert EXCEPT ![rec.name] = rec]
          /\ (InFlush(w) /\ pc'[w] = "terminated") =>
                /\ table' = table
                /\ flushPos'[w] = flushPos[w]
                /\ \A i \in 1..(flushPos[w] - 1) :
                      /\ cases_batch[w][i] \in flushedOnce
                      /\ HasRow(table', cases_batch[w][i].name)]_vars

\* a flush of two records failed after its first record was written: the
\* first record was committed, another worker's later observation of the same
\* name has replaced it since, and the second record was never written
C17_Witness ==
    \E w \in Workers :
        /\ pc[w] = "terminated"
        /\ Len(cases_batch[w]) = 2
        /\ flushPos[w] = 2
        /\ cases_batch[w][1] \in flushedOnce
        /\ cases_batch[w][2] \notin flushedOnce
        /\ HasRow(table, cases_batch[w][1].name)
        /\ RowOf(table, cases_batch[w][1].name).last_updated
              > cases_batch[w][1].last_updated

\* the state worker_thread keeps for worker w: its position in the for loop
\* and in process_case, its batch, and the record process_case returned
Locals(w) ==
    <<pc[w], idx[w], retries[w], processed_case[w], cases_batch[w], flushPos[w]>>

\* worker w's thread is running
Running(w) == pc[w] \notin {"unstarted", "terminated"}

\* one step of worker_thread, whichever it is
WorkerStep(w) ==
    \/ Connect(w)
    \/ ConnectFail(w)
    \/ FetchSuccess(w)
    \/ FetchFail(w)
    \/ GiveUp(w)
    \/ AppendCheck(w)
    \/ UpsertStep(w)
    \/ FlushDone(w)
    \/ FlushFail(w)
    \/ EndOfSweep(w)
    \/ NextSweep(w)

\* C18: workers are independent: a step of a running worker, its termination
\* by an error included, leaves every other worker's batch, sweep position,
\* retry counter and place in the loop unchanged and leaves the catalog, the
\* configuration and the main thread unchanged; and whatever the other
\* workers have done, terminated or not, a running worker always has a step
\* it can take.
C18_WorkersIndependent ==
    /\ [][\A w \in Workers :
             (Running(w) /\ Locals(w)' # Locals(w)) =>
                /\ \A v \in Workers \ {w} : Locals(v)' = Locals(v)
                /\ case_list' = case_list
                /\ UNCHANGED <<cfgVars, main_pc, started>>]_vars
    /\ [](\A w \in Workers : Running(w) => ENABLED WorkerStep(w))

\* one worker has been terminated by an error at the start of a flush of one
\* record while the other, with another batch, is retrying the fetch of the
\* second item
C18_Witness ==
    \E w \in Workers, v \in Workers :
        /\ pc[w] = "terminated"
        /\ flushPos[w] = 1
        /\ Len(cases_batch[w]) = 1
        /\ pc[v] = "fetch"
        /\ idx[v] = 2
        /\ retries[v] = 1
        /\ cases_batch[v] # <<>>
        /\ cases_batch[v] # cases_batch[w]

\* C19: in every reachable state each worker's batch holds at most BATCH_SIZE
\* records; it holds exactly BATCH_SIZE records during a threshold flush and
\* strictly fewer whenever the worker is anywhere else in its loop (between
\* items, in process_case, at the end of a sweep, asleep between sweeps),
\* the records left over from earlier sweeps included.
C19_BatchBounded ==
    \A w \in Workers :
        /\ Len(cases_batch[w]) <= BATCH_SIZE
        /\ pc[w] = "flushT" => Len(cases_batch[w]) = BATCH_SIZE
        /\ pc[w] \in {"unstarted", "stagger", "fetch", "returned",
                      "sweepend", "flushE", "idle"}
              => Len(cases_batch[w]) < BATCH_SIZE

\* a threshold flush of a full batch of two whose first record is left over
\* from the end-of-sweep flush of an earlier sweep
C19_Witness ==
    \E w \in Workers :
        /\ pc[w] = "flushT"
        /\ BATCH_SIZE = 2
        /\ Len(cases_batch[w]) = 2
        /\ cases_batch[w][1] \in flushedOnce
        /\ cases_batch[w][2] \notin flushedOnce
        /\ idx[w] = 1

\* C20, as stated: with one worker, whatever fetches succeed or fail and
\* whatever BATCH_SIZE is, no step lowers the last_updated of a stored row,
\* and when a flush returns the stored row of every name is the most recent
\* successful fetch of that name among the records flushed so far.
C20_SingleWorkerMonotone ==
    [][/\ \A old \in table : \A new \in table' :
             new.name = old.name => new.last_updated >= old.last_updated
       /\ \A w \in Workers :
             (InFlush(w) /\ pc'[w] \notin {"flushT", "flushE", "terminated"}) =>
                \A row \in table' : \A r \in flushedOnce' :
                    r.name = row.name => r.last_updated <= row.last_updated]_vars

====
